---- MODULE Spec2Model ----
(* A model of axum-dyn-error: the HttpError trait, the type-erased one-shot   *)
(* container DynHttpError<I>, the TextErrorResponse strategy (src/src/lib.rs) *)
(* and the anyhow adapter AnyhowHttpError (src/src/anyhow.rs).                *)
(* Texts are strings; formatting is modelled by string concatenation.         *)
(* logEnabled and hideAnyhow are the cargo features `log` and `hide-anyhow`;  *)
(* marker is the strategy I of the application's HttpResult<T, I>.            *)
(* state[c] is the life of container c: none, live, rendered or dropped;      *)
(* inner[c] is its boxed error; events[c] are the log record and the response *)
(* its render produced, in order; lastOut is the latest Debug or Display      *)
(* output; wrapped[c] records the conversion that created c.                  *)
(* Record constructors list their fields in the order of the fields' first   *)
(* appearance in the module, which is the order TLC keeps records in.         *)
EXTENDS Integers, Sequences, FiniteSets, TLC

\* ---------------------------------------------------------------- bounds
\* Number of containers (DynHttpError values) a behaviour creates.
NumContainers == 2

Containers == 1..NumContainers

\* ------------------------------------------------------- program constants
\* StatusCode::INTERNAL_SERVER_ERROR
INTERNAL_SERVER_ERROR == 500

\* The generic message of the hide-anyhow feature.
ServerErrorText == "Server error"

\* std::any::type_name::<AnyhowHttpError>()
AnyhowTypeName == "axum_dyn_error::anyhow::AnyhowHttpError"

\* ------------------------------------------------------------------ inputs
\* Option values are sequences of length 0 or 1.
None == <<>>
Some(x) == <<x>>

\* Statuses a caller passes to AnyhowStatusExt::status.
ExplicitStatuses == {400}

\* Statuses a purpose-built error returns from an overriding status().
DomainStatuses == {404}

StatusCodes == {INTERNAL_SERVER_ERROR} \cup ExplicitStatuses \cup DomainStatuses

\* The Display of http::StatusCode's number, as its Debug prints it.
StatusText(s) ==
    CASE s = 400 -> "400"
      [] s = 404 -> "404"
      [] s = 500 -> "500"
      [] OTHER -> "???"

\* anyhow::Error values: a top-level message and its cause chain (outermost
\* cause first).
AnyhowErrors ==
    { [msg |-> "db connection failed", causes |-> <<"timeout">>],
      [msg |-> "db connection failed", causes |-> <<"timeout", "connection reset">>],
      [msg |-> "upstream timeout", causes |-> <<>>],
      [msg |-> "upstream timeout", causes |-> <<"timeout">>] }

\* Purpose-built errors: a type implementing HttpError whose Display prints
\* `display`, whose Debug prints `debug`, and which overrides status() and
\* reason() or leaves them to the trait's defaults.
DomainErrors ==
    { [kind |-> "domain", typeName |-> "app::NotFound", display |-> "user missing",
       debug |-> "NotFound", statusOv |-> s, reasonOv |-> r] :
        s \in {None} \cup {Some(x) : x \in DomainStatuses},
        r \in {None, Some("not found")} }

\* Rendering strategies: the crate's TextErrorResponse and a user
\* implementation of IntoHttpErrorResponse. The application's handlers return
\* HttpResult<T, I> for one strategy I.
Markers == {"TextErrorResponse", "CustomErrorResponse"}

VARIABLES logEnabled, hideAnyhow, state, inner, marker, wrapped, events, lastOut

vars == <<logEnabled, hideAnyhow, state, inner, marker, wrapped, events, lastOut>>

\* ------------------------------------------------------- pure functions
Digit(i) == <<"0", "1", "2", "3", "4", "5">>[i + 1]

RECURSIVE NumberedCauses(_, _)
NumberedCauses(causes, i) ==
    IF i > Len(causes) THEN ""
    ELSE "\n    " \o Digit(i - 1) \o ": " \o causes[i] \o NumberedCauses(causes, i + 1)

\* `{}` of anyhow::Error: the top-level message only.
AnyhowDisplay(err) == err.msg

\* `{:?}` of anyhow::Error: the message, then the cause chain.
AnyhowDebug(err) ==
    IF Len(err.causes) = 0 THEN err.msg
    ELSE IF Len(err.causes) = 1
         THEN err.msg \o "\n\nCaused by:\n    " \o err.causes[1]
         ELSE err.msg \o "\n\nCaused by:" \o NumberedCauses(err.causes, 1)

\* AnyhowStatusExt::status: wraps the error with the given status.
AnyhowStatusExt_status(err, status) ==
    [kind |-> "anyhow", status |-> status, error |-> err]

\* From<anyhow::Error> for DynHttpError: the default status.
From_anyhow(err) == AnyhowStatusExt_status(err, INTERNAL_SERVER_ERROR)

\* Display of the erased error.
DisplayText(e) ==
    IF e.kind = "anyhow" THEN AnyhowDisplay(e.error) ELSE e.display

\* Debug of the erased error; derived for AnyhowHttpError.
DebugText(e) ==
    IF e.kind = "anyhow"
    THEN "AnyhowHttpError { error: " \o AnyhowDebug(e.error)
             \o ", status: " \o StatusText(e.status) \o " }"
    ELSE e.debug

\* HttpError::status, the trait's default.
HttpError_status(e) == INTERNAL_SERVER_ERROR

\* A default reason() that prints the Debug form instead of the Display form.
HttpError_reason_debug(e) == DebugText(e)

\* A default reason() that the hide-anyhow feature replaces too.
HttpError_reason_hidden(e) ==
    IF hideAnyhow THEN ServerErrorText ELSE DisplayText(e)

\* HttpError::reason, the trait's default.
HttpError_reason(e) == DisplayText(e)

\* HttpError::log, the trait's default: "{self}: {self:?}".
HttpError_log(e) == DisplayText(e) \o ": " \o DebugText(e)

\* HttpError::type_name.
type_name(e) == IF e.kind = "anyhow" THEN AnyhowTypeName ELSE e.typeName

\* An adapter that leaves status() to the trait's default.
AnyhowHttpError_status_default(e) == INTERNAL_SERVER_ERROR

\* AnyhowHttpError::status.
AnyhowHttpError_status(e) == e.status

\* An adapter whose reason() is never replaced by the generic message.
AnyhowHttpError_reason_leak(e) == DisplayText(e)

\* AnyhowHttpError::reason: overridden only under the hide-anyhow feature.
AnyhowHttpError_reason(e) ==
    IF hideAnyhow THEN ServerErrorText ELSE HttpError_reason(e)

\* An adapter whose log() is cut down with the reason.
AnyhowHttpError_log_hidden(e) ==
    IF hideAnyhow THEN ServerErrorText ELSE AnyhowDebug(e.error)

\* AnyhowHttpError::log: the Debug of the anyhow error only.
AnyhowHttpError_log(e) == AnyhowDebug(e.error)

\* Dynamic dispatch of status() on Box<dyn HttpError>.
status(e) ==
    IF e.kind = "anyhow" THEN AnyhowHttpError_status(e)
    ELSE IF e.statusOv # None THEN e.statusOv[1] ELSE HttpError_status(e)

\* Dynamic dispatch of reason().
reason(e) ==
    IF e.kind = "anyhow" THEN AnyhowHttpError_reason(e)
    ELSE IF e.reasonOv # None THEN e.reasonOv[1] ELSE HttpError_reason(e)

\* Dynamic dispatch of log(): the text of the record it emits.
log(e) ==
    IF e.kind = "anyhow" THEN AnyhowHttpError_log(e) ELSE HttpError_log(e)

\* A text strategy that prints the error instead of asking for its reason().
TextErrorResponse_into_response_display(e) ==
    [status |-> status(e), body |-> DisplayText(e)]

\* TextErrorResponse::into_response: (status, reason).into_response().
TextErrorResponse_into_response(e) ==
    [status |-> status(e), body |-> reason(e)]

\* A user strategy: a structured body of the status and the reason.
CustomErrorResponse_into_response(e) ==
    [status |-> status(e),
     body |-> "{status:" \o StatusText(status(e)) \o ",message:" \o reason(e) \o "}"]

\* I::into_response, chosen by the container's marker type.
I_into_response(m, e) ==
    IF m = "TextErrorResponse" THEN TextErrorResponse_into_response(e)
    ELSE CustomErrorResponse_into_response(e)

\* A Debug that names the container instead of the erased type.
DynHttpError_Debug_nolabel(e) == "DynHttpError(" \o DebugText(e) \o ")"

\* Debug of DynHttpError: debug_tuple(type_name).field(&inner).finish().
DynHttpError_Debug(e) == type_name(e) \o "(" \o DebugText(e) \o ")"

\* Display of DynHttpError: the inner error's Display.
DynHttpError_Display(e) == DisplayText(e)

\* ------------------------------------------------------------- the machine
Init ==
    /\ logEnabled \in BOOLEAN
    /\ hideAnyhow \in BOOLEAN
    /\ state = [c \in Containers |-> "none"]
    /\ inner = [c \in Containers |-> None]
    /\ marker \in Markers
    /\ wrapped = [c \in Containers |-> [path |-> "none"]]
    /\ events = [c \in Containers |-> <<>>]
    /\ lastOut = None

\* The container a conversion creates: the boxed error and the marker.
\* Containers are numbered in the order of their creation.
DynHttpError_new(c, e, origin) ==
    /\ state[c] = "none"
    /\ \A d \in Containers : d < c => state[d] # "none"
    /\ state' = [state EXCEPT ![c] = "live"]
    /\ inner' = [inner EXCEPT ![c] = Some(e)]
    /\ wrapped' = [wrapped EXCEPT ![c] = origin]
    /\ UNCHANGED <<logEnabled, hideAnyhow, marker, events, lastOut>>

\* From<E: HttpError> for DynHttpError<I>.
From_HttpError(c) ==
    \E e \in DomainErrors :
        DynHttpError_new(c, e, [err |-> e, path |-> "domain"])

\* From<anyhow::Error> for DynHttpError<I>.
From_anyhow_Error(c) ==
    \E err \in AnyhowErrors :
        DynHttpError_new(c, From_anyhow(err),
                         [err |-> From_anyhow(err), path |-> "default",
                          given |-> INTERNAL_SERVER_ERROR])

\* err.status(code).into(): the adapter with an explicit status.
From_AnyhowHttpError(c) ==
    \E err \in AnyhowErrors, s \in ExplicitStatuses :
        DynHttpError_new(c, AnyhowStatusExt_status(err, s),
                         [err |-> AnyhowStatusExt_status(err, s),
                          path |-> "explicit", given |-> s])

\* `{:?}` of a container; implemented for DynHttpError<TextErrorResponse>.
Debug_fmt(c) ==
    /\ state[c] = "live"
    /\ marker = "TextErrorResponse"
    /\ lastOut' = Some([err |-> inner[c][1], c |-> c, op |-> "debug",
                     text |-> DynHttpError_Debug(inner[c][1])])
    /\ UNCHANGED <<logEnabled, hideAnyhow, state, inner, marker, wrapped, events>>

\* `{}` of a container; implemented for DynHttpError<TextErrorResponse>.
Display_fmt(c) ==
    /\ state[c] = "live"
    /\ marker = "TextErrorResponse"
    /\ lastOut' = Some([err |-> inner[c][1], c |-> c, op |-> "display",
                     text |-> DynHttpError_Display(inner[c][1])])
    /\ UNCHANGED <<logEnabled, hideAnyhow, state, inner, marker, wrapped, events>>

\* A render that logs after it has built the response.
RenderEvents_logAfter(c, m, e) ==
    <<[marker |-> m, err |-> e,
       status |-> I_into_response(m, e).status,
       body |-> I_into_response(m, e).body, c |-> c, ev |-> "response"]>>
    \o (IF logEnabled THEN <<[err |-> e, c |-> c, text |-> log(e), ev |-> "log"]>>
        ELSE <<>>)

\* A render that can end without a response.
RenderEvents_noResponse(c, m, e) ==
    IF logEnabled THEN <<[err |-> e, c |-> c, text |-> log(e), ev |-> "log"]>>
    ELSE <<>>

\* The records and the response one render produces, in the order of the code.
RenderEvents(c, m, e) ==
    (IF logEnabled THEN <<[err |-> e, c |-> c, text |-> log(e), ev |-> "log"]>>
     ELSE <<>>)
    \o <<[marker |-> m, err |-> e,
          status |-> I_into_response(m, e).status,
          body |-> I_into_response(m, e).body, c |-> c, ev |-> "response"]>>

\* A render that borrows the container and leaves it usable.
MoveOut_borrow(c) == <<state, inner>>

\* into_response(self) and `let error = self.inner`: the container is moved
\* into the call and its error out of it. The new <<state, inner>>.
MoveOut(c) ==
    <<[state EXCEPT ![c] = "rendered"], [inner EXCEPT ![c] = None]>>

\* IntoResponse for DynHttpError<I>.
into_response(c) ==
    /\ state[c] = "live"
    /\ events' = [events EXCEPT ![c] = @ \o RenderEvents(c, marker, inner[c][1])]
    /\ state' = MoveOut(c)[1]
    /\ inner' = MoveOut(c)[2]
    /\ UNCHANGED <<logEnabled, hideAnyhow, marker, wrapped, lastOut>>

\* A container going out of scope unrendered: the value is dropped.
Drop(c) ==
    /\ state[c] = "live"
    /\ state' = [state EXCEPT ![c] = "dropped"]
    /\ inner' = [inner EXCEPT ![c] = None]
    /\ wrapped' = [wrapped EXCEPT ![c] = [path |-> "none"]]
    /\ UNCHANGED <<logEnabled, hideAnyhow, marker, events, lastOut>>

Next ==
    \E c \in Containers :
        \/ From_HttpError(c)
        \/ From_anyhow_Error(c)
        \/ From_AnyhowHttpError(c)
        \/ Debug_fmt(c)
        \/ Display_fmt(c)
        \/ into_response(c)
        \/ Drop(c)

Spec == Init /\ [][Next]_vars

\* The server renders every error a handler returns to it.
FairSpec == Spec /\ \A c \in Containers : WF_vars(into_response(c))

\* ------------------------------------------------------- reading the state
IsResponse(r) == r.ev = "response"
IsLog(r) == r.ev = "log"

ResponsesOf(c) == SelectSeq(events[c], IsResponse)
LogsOf(c) == SelectSeq(events[c], IsLog)

Created(c) == state[c] \in {"live", "rendered"}
Rendered(c) == state[c] = "rendered"
Live(c) == state[c] = "live"

IsGeneric(c) == Created(c) /\ wrapped[c].path \in {"default", "explicit"}
IsDomain(c) == Created(c) /\ wrapped[c].path = "domain"

\* The response of a rendered container.
ResponseOf(c) == ResponsesOf(c)[1]

\* What each conversion promises, read off the value given to it.
ExpectedStatus(w) ==
    IF w.path = "domain"
    THEN (IF w.err.statusOv = None THEN INTERNAL_SERVER_ERROR ELSE w.err.statusOv[1])
    ELSE w.given

ExpectedDomainReason(w) ==
    IF w.err.reasonOv = None THEN w.err.display ELSE w.err.reasonOv[1]

ExpectedGenericReason(w, hide) ==
    IF hide THEN "Server error" ELSE w.err.error.msg

\* ------------------------------------------------------------------ claims

\* C1: a container rendered with the default text strategy yields a response
\* whose status is the wrapped error's status() and whose body is exactly its
\* reason(); a domain error with status 404 and reason "not found" yields
\* status 404 and body "not found".
C1_TextResponseIsStatusAndReason ==
    marker = "TextErrorResponse" =>
        \A c \in Containers : Rendered(c) =>
            /\ Len(ResponsesOf(c)) = 1
            /\ ResponseOf(c).status = status(wrapped[c].err)
            /\ ResponseOf(c).body = reason(wrapped[c].err)
            /\ (/\ wrapped[c].path = "domain"
                /\ wrapped[c].err.statusOv = Some(404)
                /\ wrapped[c].err.reasonOv = Some("not found"))
               => (ResponseOf(c).status = 404 /\ ResponseOf(c).body = "not found")

C1_Witness ==
    /\ marker = "TextErrorResponse"
    /\ \E c, d \in Containers :
        /\ Rendered(c) /\ IsDomain(c)
        /\ ResponseOf(c).status = 404 /\ ResponseOf(c).body = "not found"
        /\ Rendered(d) /\ IsGeneric(d)
        /\ ResponseOf(d).body = reason(wrapped[d].err)

\* C2: for an adapter-wrapped generic error, reason() and the body rendered
\* by the text strategy are exactly "Server error" when hide-detail is
\* enabled, whatever the message and the cause chain, so that two generic
\* errors render the same body; when hide-detail is disabled they are the
\* top-level message of the wrapped error.
C2_GenericReasonHidden ==
    /\ \A c \in Containers : IsGeneric(c) =>
        /\ Live(c) =>
               reason(inner[c][1]) = ExpectedGenericReason(wrapped[c], hideAnyhow)
        /\ (Rendered(c) /\ marker = "TextErrorResponse") =>
               ResponseOf(c).body = ExpectedGenericReason(wrapped[c], hideAnyhow)
    /\ \A c, d \in Containers :
        (/\ hideAnyhow /\ marker = "TextErrorResponse"
         /\ IsGeneric(c) /\ IsGeneric(d) /\ Rendered(c) /\ Rendered(d))
        => ResponseOf(c).body = ResponseOf(d).body

C2_Witness ==
    /\ hideAnyhow
    /\ marker = "TextErrorResponse"
    /\ \E c, d \in Containers :
        /\ IsGeneric(c) /\ IsGeneric(d) /\ Rendered(c) /\ Rendered(d)
        /\ wrapped[c].err.error.msg # wrapped[d].err.error.msg
        /\ Len(wrapped[c].err.error.causes) # Len(wrapped[d].err.error.causes)
        /\ ResponseOf(c).body = "Server error"
        /\ ResponseOf(d).body = "Server error"

\* The characters of the message and of every cause of an anyhow error.
RECURSIVE ChainLen(_, _)
ChainLen(causes, i) ==
    IF i > Len(causes) THEN 0 ELSE Len(causes[i]) + ChainLen(causes, i + 1)

\* C3: log() on an adapter-wrapped generic error emits the full diagnostic
\* text (the message and the cause chain) whether or not hide-detail is
\* enabled: the record is a function of the wrapped error alone, so it is the
\* same in both hide-detail states, and it is never shorter.
C3_GenericLogIsFull ==
    \A c \in Containers : (IsGeneric(c) /\ Rendered(c) /\ logEnabled) =>
        /\ Len(LogsOf(c)) = 1
        /\ LogsOf(c)[1].text = AnyhowDebug(wrapped[c].err.error)
        /\ Len(LogsOf(c)[1].text)
              >= Len(wrapped[c].err.error.msg) + ChainLen(wrapped[c].err.error.causes, 1)

C3_Witness ==
    /\ hideAnyhow
    /\ logEnabled
    /\ \E c \in Containers :
        /\ IsGeneric(c) /\ Rendered(c)
        /\ Len(wrapped[c].err.error.causes) = 2
        /\ LogsOf(c)[1].text # ResponseOf(c).body
        /\ Len(LogsOf(c)[1].text) > Len("Server error")

\* C4: the status of an adapter-wrapped generic error is the status assigned
\* at wrap time: 500 through the default conversion, the caller's status
\* through the explicit one, in both hide-detail states; it is unchanged
\* while the container lives and is the status of the response.
C4_GenericStatusIsAssigned ==
    \A c \in Containers : IsGeneric(c) =>
        /\ wrapped[c].path = "default" => wrapped[c].given = 500
        /\ wrapped[c].path = "explicit" => wrapped[c].given \in ExplicitStatuses
        /\ Live(c) =>
            /\ inner[c] = Some(wrapped[c].err)
            /\ status(inner[c][1]) = wrapped[c].given
        /\ Rendered(c) => ResponseOf(c).status = wrapped[c].given

C4_Witness ==
    /\ hideAnyhow
    /\ lastOut # None
    /\ \E c, d \in Containers :
        /\ lastOut[1].c = c
        /\ Rendered(c) /\ wrapped[c].path = "explicit"
        /\ ResponseOf(c).status = 400
        /\ Rendered(d) /\ wrapped[d].path = "default"
        /\ ResponseOf(d).status = 500

\* C5: an error that relies on the defaults has status() 500 and reason()
\* equal to its display text; overriding status() or reason() replaces that
\* attribute only.
C5_Defaults ==
    \A c \in Containers :
        /\ (IsDomain(c) /\ Live(c)) =>
            LET e == inner[c][1] IN
            /\ e.statusOv = None => status(e) = 500
            /\ e.reasonOv = None => reason(e) = e.display
            /\ e.statusOv # None => status(e) = e.statusOv[1]
            /\ e.reasonOv # None => reason(e) = e.reasonOv[1]
        /\ (IsDomain(c) /\ Rendered(c) /\ marker = "TextErrorResponse") =>
            LET e == wrapped[c].err IN
            /\ e.statusOv = None => ResponseOf(c).status = 500
            /\ e.reasonOv = None => ResponseOf(c).body = e.display
        /\ (IsGeneric(c) /\ Live(c) /\ ~hideAnyhow) =>
            reason(inner[c][1]) = wrapped[c].err.error.msg

C5_Witness ==
    /\ marker = "TextErrorResponse"
    /\ \E c, d \in Containers :
        /\ IsDomain(c) /\ Rendered(c)
        /\ wrapped[c].err.statusOv = None /\ wrapped[c].err.reasonOv = None
        /\ ResponseOf(c).status = 500 /\ ResponseOf(c).body = "user missing"
        /\ IsDomain(d) /\ Live(d)
        /\ inner[d][1].statusOv = Some(404) /\ inner[d][1].reasonOv = None
        /\ reason(inner[d][1]) = "user missing"

\* C6: with logging enabled, every render emits exactly one record, the one
\* log() of the wrapped error writes, before the strategy produces the
\* response; for domain and generic errors and for every strategy.
C6_LogOnceBeforeResponse ==
    logEnabled =>
        \A c \in Containers :
            /\ Rendered(c) =>
                /\ Len(events[c]) = 2
                /\ events[c][1].ev = "log"
                /\ events[c][1].text = log(wrapped[c].err)
                /\ events[c][2].ev = "response"
            /\ ~Rendered(c) => events[c] = <<>>

C6_Witness ==
    /\ logEnabled
    /\ marker = "CustomErrorResponse"
    /\ \E c, d \in Containers :
        /\ Rendered(c) /\ IsDomain(c) /\ Len(LogsOf(c)) = 1
        /\ LogsOf(c)[1].text = "user missing: NotFound"
        /\ Rendered(d) /\ IsGeneric(d) /\ Len(LogsOf(d)) = 1

\* C7: a container is rendered at most once: it never has more than one
\* response or more than one log record, and once rendered it holds no error
\* and admits no further render, debug or display.
C7_RenderedOnce ==
    \A c \in Containers :
        /\ Len(ResponsesOf(c)) <= 1
        /\ Len(LogsOf(c)) <= 1
        /\ Len(ResponsesOf(c)) = 1 => Rendered(c)
        /\ Rendered(c) =>
            /\ inner[c] = None
            /\ ~ENABLED into_response(c)
            /\ ~ENABLED Debug_fmt(c)
            /\ ~ENABLED Display_fmt(c)

C7_Witness ==
    /\ logEnabled
    /\ lastOut # None
    /\ \E c \in Containers :
        /\ lastOut[1].c = c
        /\ Rendered(c)
        /\ Len(ResponsesOf(c)) = 1
        /\ Len(LogsOf(c)) = 1

\* The label of the erased type: the type's own name.
ExpectedLabel(e) ==
    IF e.kind = "anyhow" THEN "axum_dyn_error::anyhow::AnyhowHttpError"
    ELSE e.typeName

C8_Outputs ==
    /\ lastOut # None =>
        LET o == lastOut[1] IN
        /\ o.op = "debug" =>
               o.text = ExpectedLabel(o.err) \o "(" \o DebugText(o.err) \o ")"
        /\ o.op = "display" => o.text = DisplayText(o.err)
        /\ Created(o.c) => o.err = wrapped[o.c].err
    /\ \A c \in Containers :
        /\ Live(c) => (events[c] = <<>> /\ inner[c] = Some(wrapped[c].err))
        /\ Rendered(c) =>
            /\ ResponseOf(c).status = I_into_response(marker, wrapped[c].err).status
            /\ ResponseOf(c).body = I_into_response(marker, wrapped[c].err).body

C8_InspectionStep ==
    lastOut' # lastOut =>
        /\ UNCHANGED <<state, inner, wrapped, events, marker>>
        /\ (/\ lastOut # None
            /\ lastOut'[1].c = lastOut[1].c
            /\ lastOut'[1].op = lastOut[1].op) => lastOut'[1].text = lastOut[1].text

\* C8: the debug text of a container is the erased type's label followed by
\* the inner error's debug text in parentheses; debug and display return the
\* same output on every call, emit no log record and leave the container
\* unchanged, so the later render is that of the error as wrapped.
C8_DebugStable == []C8_Outputs /\ [][C8_InspectionStep]_vars

C8_Witness ==
    /\ lastOut # None
    /\ lastOut[1].op = "debug"
    /\ lastOut[1].text = "app::NotFound(NotFound)"
    /\ \E c, d \in Containers :
        /\ lastOut[1].c = c /\ Rendered(c)
        /\ Live(d) /\ IsGeneric(d)
        /\ ENABLED Debug_fmt(d)

\* C9: hide-internal-detail does not touch purpose-built errors: with the
\* option set or unset, reason(), the rendered status and the rendered body
\* of a domain error are those its own definitions and the defaults give.
C9_DomainUnaffectedByHide ==
    \A c \in Containers : IsDomain(c) =>
        /\ Live(c) =>
            /\ reason(inner[c][1]) = ExpectedDomainReason(wrapped[c])
            /\ status(inner[c][1]) = ExpectedStatus(wrapped[c])
        /\ (Rendered(c) /\ marker = "TextErrorResponse") =>
            /\ ResponseOf(c).body = ExpectedDomainReason(wrapped[c])
            /\ ResponseOf(c).status = ExpectedStatus(wrapped[c])

C9_Witness ==
    /\ hideAnyhow
    /\ marker = "TextErrorResponse"
    /\ \E c, d \in Containers :
        /\ IsDomain(c) /\ Rendered(c)
        /\ wrapped[c].err.reasonOv = None
        /\ ResponseOf(c).body = "user missing"
        /\ IsDomain(d) /\ Rendered(d)
        /\ wrapped[d].err.reasonOv # None
        /\ ResponseOf(d).body = "not found"

\* C10 as stated: every container that exists is eventually rendered, and
\* it cannot leave its live state in any other way.
C10_AlwaysRendered ==
    /\ \A c \in Containers : Live(c) ~> Rendered(c)
    /\ [][\A c \in Containers : Live(c) => state'[c] \in {"live", "rendered"}]_vars

\* C10 as amended: a live container can always be rendered, a render always
\* ends with exactly one well-formed response, and a container that was
\* dropped, or is not rendered yet, has none.
C10_RenderIsTotal ==
    \A c \in Containers :
        /\ Live(c) => ENABLED into_response(c)
        /\ Rendered(c) =>
            /\ Len(ResponsesOf(c)) = 1
            /\ ResponseOf(c).status \in StatusCodes
            /\ Len(ResponseOf(c).body) > 0
        /\ ~Rendered(c) => Len(ResponsesOf(c)) = 0

C10_Witness ==
    \E c, d \in Containers :
        /\ state[c] = "dropped" /\ events[c] = <<>>
        /\ Rendered(d) /\ Len(ResponsesOf(d)) = 1

====
